---------------------------- MODULE Spec2Model ----------------------------
(***************************************************************************)
(* Model of src/invoice_processor.py.                                      *)
(*                                                                         *)
(* Two specifications:                                                     *)
(*   Spec      one call of extract_info_from_text(text), stepped through   *)
(*             its four regex searches, for every text that is a           *)
(*             concatenation of at most MaxFrags pieces of invoice text;   *)
(*   SpecMain  one run of the script: the module-level start-up, main(),   *)
(*             process_invoice_image() and store_invoice_data(), for every *)
(*             outcome of the environment (files, HTTP call, database).    *)
(*                                                                         *)
(* A Python str is a sequence of one-character strings; "" is << >>.       *)
(* Positions are 1-based; an "end" is the index one past the last          *)
(* character consumed.                                                     *)
(***************************************************************************)
EXTENDS Integers, Sequences, FiniteSets, TLC

VARIABLES
    text,            \* the argument of extract_info_from_text
    extracted,       \* its local dict
    pc,              \* its position: amount, date, buyer, seller, return, done
    mainPc,          \* position of the script run
    env,             \* what the environment will answer in this run
    extracted_data,  \* main's local: what process_invoice_image returned
    calls,           \* the repository functions entered so far, in order
    output           \* the outcome messages printed by main, in order

vars == <<text, extracted, pc, mainPc, env, extracted_data, calls, output>>

extractVars == <<text, extracted, pc>>
mainVars == <<mainPc, env, extracted_data, calls, output>>

---------------------------------------------------------------------------
(* Bounds *)

MaxFrags == 2

---------------------------------------------------------------------------
(* Characters and the regex character classes *)

Digit == {"0", "1", "2", "3", "4", "5", "6", "7", "8", "9"}

\* the lower-case form of each upper-case letter
LowerOf ==
    [A |-> "a", B |-> "b", C |-> "c", D |-> "d", E |-> "e", F |-> "f", G |-> "g",
     H |-> "h", I |-> "i", J |-> "j", K |-> "k", L |-> "l", M |-> "m", N |-> "n",
     O |-> "o", P |-> "p", Q |-> "q", R |-> "r", S |-> "s", T |-> "t", U |-> "u",
     V |-> "v", W |-> "w", X |-> "x", Y |-> "y", Z |-> "z"]

Upper == DOMAIN LowerOf

Letter == Upper \cup {LowerOf[c] : c \in Upper}

\* \s, and what str.strip() removes
Space == {" ", "\t", "\n", "\r"}

\* \w
Word == Letter \cup Digit \cup {"_"}

\* [:\s]
ColonSpace == {":"} \cup Space

\* [\$€£]
Currency == {"$", "€", "£"}

\* [\d,]
DigitComma == Digit \cup {","}

\* [/\-.]
DateSep == {"/", "-", "."}

Punct == {":", ",", ".", "$", "£", "/", "-", "_"}

\* every character a text of the model may hold; "." under re.DOTALL
AnyChar == Letter \cup Digit \cup Space \cup Punct

\* re.IGNORECASE on one character
Lower(c) == IF c \in Upper THEN LowerOf[c] ELSE c

Min(S) == CHOOSE x \in S : \A y \in S : x <= y

Max(S) == CHOOSE x \in S : \A y \in S : x >= y

---------------------------------------------------------------------------
(* The backtracking matcher of re: a quantified class yields its candidate *)
(* ends in the order re tries them, and the first candidate from which the *)
(* rest of the pattern matches wins.                                       *)

NoMatch == [ok |-> FALSE, gs |-> 0, ge |-> 0]

\* a match whose group 1 spans s[gs .. ge-1]
Group(gs, ge) == [ok |-> TRUE, gs |-> gs, ge |-> ge]

\* the first candidate, in the order tried, from which the rest matched
FirstOk(rs) ==
    LET hit == {n \in 1..Len(rs) : rs[n].ok}
    IN  IF hit = {} THEN NoMatch ELSE rs[Min(hit)]

\* end of the longest run of characters of C that starts at j
RECURSIVE RunEnd(_, _, _)
RunEnd(C, s, j) ==
    IF j > Len(s) \/ s[j] \notin C THEN j ELSE RunEnd(C, s, j + 1)

\* C{lo,hi}, greedy: longest first
Rep(C, lo, hi, s, j) ==
    LET mx == Min({RunEnd(C, s, j), j + hi})
        n  == mx - (j + lo) + 1
    IN  IF n <= 0 THEN << >> ELSE [x \in 1..n |-> mx - x + 1]

\* C*
Star(C, s, j) == Rep(C, 0, Len(s), s, j)

\* C+
Plus(C, s, j) == Rep(C, 1, Len(s), s, j)

\* C?
Opt(C, s, j) == Rep(C, 0, 1, s, j)

\* C*?, lazy: shortest first
LazyStar(C, s, j) ==
    LET mx == RunEnd(C, s, j)
    IN  [x \in 1..(mx - j + 1) |-> j + x - 1]

\* a literal of the pattern at position i, under re.IGNORECASE
Lit(lit, s, i) ==
    /\ i + Len(lit) - 1 <= Len(s)
    /\ \A k \in 1..Len(lit) : Lower(s[i + k - 1]) = Lower(lit[k])

---------------------------------------------------------------------------
(* str methods *)

\* str.replace(",", "")
RemoveCommas(s) == SelectSeq(s, LAMBDA c : c # ",")

\* str.strip()
Strip(s) ==
    LET keep == {k \in 1..Len(s) : s[k] \notin Space}
    IN  IF keep = {} THEN << >> ELSE SubSeq(s, Min(keep), Max(keep))

\* str.split("\n")[0]
FirstLine(s) ==
    LET nl == {k \in 1..Len(s) : s[k] = "\n"}
    IN  IF nl = {} THEN s ELSE SubSeq(s, 1, Min(nl) - 1)

\* match.group(1)
GroupText(s, m) == SubSeq(s, m.gs, m.ge - 1)

---------------------------------------------------------------------------
\* amount, lines 45-51:
\*   (?:Total|Amount|Balance due|Invoice Total)[:\s]*[\$€£]?\s*([\d,]+\.?\d*)

AmountLabels ==
    << <<"T", "o", "t", "a", "l">>,
       <<"A", "m", "o", "u", "n", "t">>,
       <<"B", "a", "l", "a", "n", "c", "e", " ", "d", "u", "e">>,
       <<"I", "n", "v", "o", "i", "c", "e", " ", "T", "o", "t", "a", "l">> >>

\* \d* , then the end of the pattern
AmountFraction(s, gs, j) ==
    LET e == Star(Digit, s, j)
    IN  FirstOk([n \in DOMAIN e |-> Group(gs, e[n])])

\* \.?
AmountPoint(s, gs, j) ==
    LET e == Opt({"."}, s, j)
    IN  FirstOk([n \in DOMAIN e |-> AmountFraction(s, gs, e[n])])

\* ( [\d,]+
AmountDigits(s, gs) ==
    LET e == Plus(DigitComma, s, gs)
    IN  FirstOk([n \in DOMAIN e |-> AmountPoint(s, gs, e[n])])

\* \s*
AmountSpace(s, j) ==
    LET e == Star(Space, s, j)
    IN  FirstOk([n \in DOMAIN e |-> AmountDigits(s, e[n])])

\* [\$€£]?
AmountCurrency(s, j) ==
    LET e == Opt(Currency, s, j)
    IN  FirstOk([n \in DOMAIN e |-> AmountSpace(s, e[n])])

\* [:\s]*
AmountSeparator(s, j) ==
    LET e == Star(ColonSpace, s, j)
    IN  FirstOk([n \in DOMAIN e |-> AmountCurrency(s, e[n])])

\* the pattern anchored at position i, the label alternatives tried in order
AmountAt(labels, s, i) ==
    FirstOk([n \in DOMAIN labels |->
                IF Lit(labels[n], s, i)
                THEN AmountSeparator(s, i + Len(labels[n]))
                ELSE NoMatch])

\* a search that keeps the last match instead of the first
AmountSearchLast(labels, s) ==
    LET hit == {i \in 1..(Len(s) + 1) : AmountAt(labels, s, i).ok}
    IN  IF hit = {} THEN NoMatch ELSE AmountAt(labels, s, Max(hit))

\* re.search: the leftmost position at which the pattern matches
AmountSearch(labels, s) ==
    FirstOk([i \in 1..(Len(s) + 1) |-> AmountAt(labels, s, i)])

\* the group stored without removing the thousands separators
AmountValueKeepCommas(s, m) == Strip(GroupText(s, m))

\* amount_match.group(1).replace(",", "").strip()
AmountValue(s, m) == Strip(RemoveCommas(GroupText(s, m)))

---------------------------------------------------------------------------
\* date, first pattern, lines 54-56:
\*   Date[:\s]*(\d{1,2}[/\-.]\d{1,2}[/\-.]\d{2,4})

DateLabel == <<"D", "a", "t", "e">>

\* \d{2,4} ) , then the end of the pattern
NumericYear(s, gs, j) ==
    LET e == Rep(Digit, 2, 4, s, j)
    IN  FirstOk([n \in DOMAIN e |-> Group(gs, e[n])])

\* the second [/\-.]
NumericSep2(s, gs, j) ==
    LET e == Rep(DateSep, 1, 1, s, j)
    IN  FirstOk([n \in DOMAIN e |-> NumericYear(s, gs, e[n])])

\* the second \d{1,2}
NumericMonth(s, gs, j) ==
    LET e == Rep(Digit, 1, 2, s, j)
    IN  FirstOk([n \in DOMAIN e |-> NumericSep2(s, gs, e[n])])

\* the first [/\-.]
NumericSep1(s, gs, j) ==
    LET e == Rep(DateSep, 1, 1, s, j)
    IN  FirstOk([n \in DOMAIN e |-> NumericMonth(s, gs, e[n])])

\* ( \d{1,2}
NumericDay(s, gs) ==
    LET e == Rep(Digit, 1, 2, s, gs)
    IN  FirstOk([n \in DOMAIN e |-> NumericSep1(s, gs, e[n])])

\* [:\s]*
NumericSeparator(s, j) ==
    LET e == Star(ColonSpace, s, j)
    IN  FirstOk([n \in DOMAIN e |-> NumericDay(s, e[n])])

NumericDateAt(s, i) ==
    IF Lit(DateLabel, s, i) THEN NumericSeparator(s, i + Len(DateLabel)) ELSE NoMatch

\* re.search of the first date pattern
NumericDateSearch(s) ==
    FirstOk([i \in 1..(Len(s) + 1) |-> NumericDateAt(s, i)])

---------------------------------------------------------------------------
\* date, second pattern, lines 58-62:
\*   (?:Invoice Date|Bill Date)[:\s]*(\w+\s+\d{1,2},\s+\d{4})

TextualDateLabels ==
    << <<"I", "n", "v", "o", "i", "c", "e", " ", "D", "a", "t", "e">>,
       <<"B", "i", "l", "l", " ", "D", "a", "t", "e">> >>

\* \d{4} ) , then the end of the pattern
TextualYear(s, gs, j) ==
    LET e == Rep(Digit, 4, 4, s, j)
    IN  FirstOk([n \in DOMAIN e |-> Group(gs, e[n])])

\* the second \s+
TextualSpace2(s, gs, j) ==
    LET e == Plus(Space, s, j)
    IN  FirstOk([n \in DOMAIN e |-> TextualYear(s, gs, e[n])])

\* ,
TextualComma(s, gs, j) ==
    LET e == Rep({","}, 1, 1, s, j)
    IN  FirstOk([n \in DOMAIN e |-> TextualSpace2(s, gs, e[n])])

\* \d{1,2}
TextualDay(s, gs, j) ==
    LET e == Rep(Digit, 1, 2, s, j)
    IN  FirstOk([n \in DOMAIN e |-> TextualComma(s, gs, e[n])])

\* the first \s+
TextualSpace1(s, gs, j) ==
    LET e == Plus(Space, s, j)
    IN  FirstOk([n \in DOMAIN e |-> TextualDay(s, gs, e[n])])

\* ( \w+
TextualMonth(s, gs) ==
    LET e == Plus(Word, s, gs)
    IN  FirstOk([n \in DOMAIN e |-> TextualSpace1(s, gs, e[n])])

\* [:\s]*
TextualSeparator(s, j) ==
    LET e == Star(ColonSpace, s, j)
    IN  FirstOk([n \in DOMAIN e |-> TextualMonth(s, e[n])])

TextualDateAt(s, i) ==
    FirstOk([n \in DOMAIN TextualDateLabels |->
                IF Lit(TextualDateLabels[n], s, i)
                THEN TextualSeparator(s, i + Len(TextualDateLabels[n]))
                ELSE NoMatch])

\* re.search of the second date pattern
TextualDateSearch(s) ==
    FirstOk([i \in 1..(Len(s) + 1) |-> TextualDateAt(s, i)])

\* the two date patterns tried in the opposite order
DateSearchTextualFirst(s) ==
    LET date_match == TextualDateSearch(s)
    IN  IF ~date_match.ok THEN NumericDateSearch(s) ELSE date_match

\* the second date pattern never tried
DateSearchNumericOnly(s) == NumericDateSearch(s)

\* lines 54-62: the second pattern is searched only when the first found nothing
DateSearch(s) ==
    LET date_match == NumericDateSearch(s)
    IN  IF ~date_match.ok THEN TextualDateSearch(s) ELSE date_match

\* date_match.group(1).strip()
DateValue(s, m) == Strip(GroupText(s, m))

---------------------------------------------------------------------------
\* buyer, lines 72-78:   Bill To[:\s]*(.*?)(?:\n|$)          with re.DOTALL
\* seller, lines 81-85:  (?:From|Seller|Vendor)[:\s]*(.*?)(?:\n|$)  with re.DOTALL

BuyerLabels == << <<"B", "i", "l", "l", " ", "T", "o">> >>

SellerLabels ==
    << <<"F", "r", "o", "m">>,
       <<"S", "e", "l", "l", "e", "r">>,
       <<"V", "e", "n", "d", "o", "r">> >>

\* (?:\n|$) at position j: a newline, or (without re.MULTILINE) the end of the
\* string or the place just before a newline that ends the string
LineEnd(s, j) ==
    \/ j <= Len(s) /\ s[j] = "\n"
    \/ j = Len(s) + 1
    \/ j = Len(s) /\ s[j] = "\n"

\* ( .*? ) , then (?:\n|$)
LineCapture(s, gs) ==
    LET e == LazyStar(AnyChar, s, gs)
    IN  FirstOk([n \in DOMAIN e |->
                    IF LineEnd(s, e[n]) THEN Group(gs, e[n]) ELSE NoMatch])

\* [:\s]*
LineSeparator(s, j) ==
    LET e == Star(ColonSpace, s, j)
    IN  FirstOk([n \in DOMAIN e |-> LineCapture(s, e[n])])

LineAt(labels, s, i) ==
    FirstOk([n \in DOMAIN labels |->
                IF Lit(labels[n], s, i)
                THEN LineSeparator(s, i + Len(labels[n]))
                ELSE NoMatch])

\* re.search of a label-and-line pattern
LineSearch(labels, s) ==
    FirstOk([i \in 1..(Len(s) + 1) |-> LineAt(labels, s, i)])

\* the captured span split without being stripped first
LineValueNoStrip(s, m) == FirstLine(GroupText(s, m))

\* match.group(1).strip().split("\n")[0]
LineValue(s, m) == FirstLine(Strip(GroupText(s, m)))

---------------------------------------------------------------------------
(* extract_info_from_text *)

Fields == {"amount", "buyer", "seller", "date"}

\* a dict literal that leaves out the "date" key
EmptyRecordNoDate == [f \in Fields \ {"date"} |-> << >>]

\* a dict literal whose amount defaults to "0"
EmptyRecordZeroAmount == [f \in Fields |-> IF f = "amount" THEN <<"0">> ELSE << >>]

\* extracted = {"amount": "", "buyer": "", "seller": "", "date": ""}
EmptyRecord == [f \in Fields |-> << >>]

\* d[key] = v on a Python dict
SetItem(d, key, v) ==
    [k \in DOMAIN d \cup {key} |-> IF k = key THEN v ELSE d[k]]

\* the pieces of invoice text the inputs are built from
Fragments ==
    { <<"T", "o", "t", "a", "l", ":", " ", "$", "1", ",", "2", "3", "4", ".", "5", "6">>,
      <<"A", "m", "o", "u", "n", "t", ":", " ", "5", "\n">>,
      <<"S", "u", "b", "t", "o", "t", "a", "l", " ", "1", "2", "\n">>,
      <<"T", "O", "T", "A", "L", " ", ",">>,
      <<"T", "o", "t", "a", "l", ":", " ", "\n">>,
      <<"B", "a", "l", "a", "n", "c", "e", " ", "d", "u", "e", ":", " ", "£", " ", "1", "0", ".", "\n">>,
      <<"7">>,
      <<"\n">>,
      <<"D", "a", "t", "e", ":", " ", "5", "/", "1", "/", "2", "0", "2", "4">>,
      <<"d", "a", "t", "e", ":", "\t", "1", "-", "2", ".", "2", "0", "2", "4", "5", "\r", "\n">>,
      <<"I", "n", "v", "o", "i", "c", "e", " ", "D", "a", "t", "e", ":", " ", "M", "a", "y", " ", "1", ",", " ", "2", "0", "2", "4">>,
      <<"I", "n", "v", "o", "i", "c", "e", " ", "D", "a", "t", "e", ":", " ", "J", "a", "n", "u", "a", "r", "y", " ", "5", ",", " ", "2", "0", "2", "4">>,
      <<"B", "i", "l", "l", " ", "D", "a", "t", "e", ":", " ", "M", "a", "y", " ", "1", ",", " ", "2", "0", "2", "4", "\n">>,
      <<"B", "i", "l", "l", " ", "T", "o", ":", " ", "A", "c", "m", "e", " ", "C", "o", "r", "p", "\n", "1", "2", "3", " ", "M", "a", "i", "n", " ", "S", "t">>,
      <<"b", "i", "l", "l", " ", "t", "o", ":", " ", "\n">>,
      <<" ", "A", "c", "m", "e", " ", "\n">>,
      <<"V", "e", "n", "d", "o", "r", ":">>,
      <<"V", "e", "n", "d", "o", "r", ":", "\n">>,
      <<"F", "r", "o", "m", ":", " ", "B", "o", "b", "\n">>,
      <<"s", "e", "l", "l", "e", "r", " ", "A", "n", "n">> }

RECURSIVE TextsOf(_)
TextsOf(n) ==
    IF n = 0 THEN {<< >>}
    ELSE {t \o f : t \in TextsOf(n - 1), f \in Fragments}

\* the inputs: every concatenation of at most MaxFrags fragments
Texts == UNION {TextsOf(n) : n \in 0..MaxFrags}

\* a run of the script that has not started; the extractor called on its own
NoEnv ==
    [hf_api_key |-> FALSE, image_exists |-> FALSE, api |-> "none",
     supabase_url |-> FALSE, supabase_key |-> FALSE, insert |-> "none"]

\* {}: the empty dict of lines 118-136; also extracted_data before line 179
EmptyDict == << >>

\* the state on entry to extract_info_from_text(text), after line 41
Init ==
    /\ text \in Texts
    /\ extracted = EmptyRecord
    /\ pc = "amount"
    /\ mainPc = "idle"
    /\ env = NoEnv
    /\ extracted_data = EmptyDict
    /\ calls = <<"extract_info_from_text">>
    /\ output = << >>

\* lines 45-51
MatchAmount ==
    /\ pc = "amount"
    /\ LET amount_match == AmountSearch(AmountLabels, text)
       IN  extracted' = IF amount_match.ok
                        THEN SetItem(extracted, "amount", AmountValue(text, amount_match))
                        ELSE extracted
    /\ pc' = "date"
    /\ UNCHANGED <<text, mainVars>>

\* lines 54-64
MatchDate ==
    /\ pc = "date"
    /\ LET date_match == DateSearch(text)
       IN  extracted' = IF date_match.ok
                        THEN SetItem(extracted, "date", DateValue(text, date_match))
                        ELSE extracted
    /\ pc' = "buyer"
    /\ UNCHANGED <<text, mainVars>>

\* lines 72-78
MatchBuyer ==
    /\ pc = "buyer"
    /\ LET buyer_match == LineSearch(BuyerLabels, text)
       IN  extracted' = IF buyer_match.ok
                        THEN SetItem(extracted, "buyer", LineValue(text, buyer_match))
                        ELSE extracted
    /\ pc' = "seller"
    /\ UNCHANGED <<text, mainVars>>

\* lines 81-85
MatchSeller ==
    /\ pc = "seller"
    /\ LET seller_match == LineSearch(SellerLabels, text)
       IN  extracted' = IF seller_match.ok
                        THEN SetItem(extracted, "seller", LineValue(text, seller_match))
                        ELSE extracted
    /\ pc' = "return"
    /\ UNCHANGED <<text, mainVars>>

\* line 87
Return ==
    /\ pc = "return"
    /\ pc' = "done"
    /\ UNCHANGED <<text, extracted, mainVars>>

Next ==
    \/ MatchAmount
    \/ MatchDate
    \/ MatchBuyer
    \/ MatchSeller
    \/ Return

Spec == Init /\ [][Next]_vars

---------------------------------------------------------------------------
(* The script: start-up, main, process_invoice_image, store_invoice_data *)

ApiOutcomes == {"ok", "unreadable_file", "connection_error", "http_error", "bad_json"}

InsertOutcomes == {"ok", "error", "exception"}

\* what the environment answers during one run
Envs ==
    [hf_api_key : BOOLEAN, image_exists : BOOLEAN, api : ApiOutcomes,
     supabase_url : BOOLEAN, supabase_key : BOOLEAN, insert : InsertOutcomes]

\* process_invoice_image: the value returned for each outcome of reading the
\* image and posting it; extract_info_from_text is called on none of the paths
ProcessInvoiceImage(api) ==
    CASE api = "ok"               -> EmptyDict   \* line 118
      [] api = "connection_error" -> EmptyDict   \* line 127
      [] api = "http_error"       -> EmptyDict   \* line 127, from raise_for_status
      [] api = "bad_json"         -> EmptyDict   \* line 131
      [] api = "unreadable_file"  -> EmptyDict   \* line 136

\* store_invoice_data: True only when both credentials are set and the insert
\* neither raises nor answers with an error
StoreInvoiceData(data, e) ==
    /\ e.supabase_url
    /\ e.supabase_key
    /\ e.insert = "ok"

\* not extracted_data or all(value == "" for value in extracted_data.values())
NothingExtracted(data) ==
    \/ DOMAIN data = {}
    \/ \A k \in DOMAIN data : data[k] = << >>

InitMain ==
    /\ text = << >>
    /\ extracted = EmptyRecord
    /\ pc = "idle"
    /\ mainPc = "load"
    /\ env \in Envs
    /\ extracted_data = EmptyDict
    /\ calls = << >>
    /\ output = << >>

\* lines 13-33 and 191-192: the module raises ValueError without HF_API_KEY,
\* and otherwise calls main
ModuleLoad ==
    /\ mainPc = "load"
    /\ IF env.hf_api_key
       THEN /\ mainPc' = "main"
            /\ calls' = Append(calls, "main")
            /\ output' = output
       ELSE /\ mainPc' = "import_error"
            /\ calls' = calls
            /\ output' = Append(output, "ValueError")
    /\ UNCHANGED <<extractVars, env, extracted_data>>

\* lines 174-178
MainCheckImage ==
    /\ mainPc = "main"
    /\ IF ~env.image_exists
       THEN /\ mainPc' = "done"
            /\ output' = Append(output, "Error: invoice.png not found")
       ELSE /\ mainPc' = "process"
            /\ output' = output
    /\ UNCHANGED <<extractVars, env, extracted_data, calls>>

\* line 179, the whole call of process_invoice_image
MainProcess ==
    /\ mainPc = "process"
    /\ calls' = Append(calls, "process_invoice_image")
    /\ extracted_data' = ProcessInvoiceImage(env.api)
    /\ mainPc' = "report"
    /\ UNCHANGED <<extractVars, env, output>>

\* lines 180-188, the call of store_invoice_data included
MainReport ==
    /\ mainPc = "report"
    /\ IF NothingExtracted(extracted_data)
       THEN /\ output' = Append(output, "Failed to extract data from invoice or no data extracted.")
            /\ calls' = calls
       ELSE /\ calls' = Append(calls, "store_invoice_data")
            /\ output' = Append(output,
                                IF StoreInvoiceData(extracted_data, env)
                                THEN "Data stored successfully"
                                ELSE "Failed to store data")
    /\ mainPc' = "done"
    /\ UNCHANGED <<extractVars, env, extracted_data>>

NextMain ==
    \/ ModuleLoad
    \/ MainCheckImage
    \/ MainProcess
    \/ MainReport

SpecMain == InitMain /\ [][NextMain]_vars

---------------------------------------------------------------------------
(* Properties *)

\* sub occurs in s at position i, character for character
Occurs(sub, s, i) ==
    /\ i + Len(sub) - 1 <= Len(s)
    /\ \A k \in 1..Len(sub) : s[i + k - 1] = sub[k]

Positions == 1..(Len(text) + 1)

\* the positions of text at which each pattern matches
AmountHits == {i \in Positions : AmountAt(AmountLabels, text, i).ok}
NumericDateHits == {i \in Positions : NumericDateAt(text, i).ok}
TextualDateHits == {i \in Positions : TextualDateAt(text, i).ok}
BuyerHits == {i \in Positions : LineAt(BuyerLabels, text, i).ok}
SellerHits == {i \in Positions : LineAt(SellerLabels, text, i).ok}

\* the positions of text at which a label of the list stands
LabelAt(labels) ==
    {i \in Positions : \E n \in DOMAIN labels : Lit(labels[n], text, i)}

\* the position of the newline that ends the line holding position j
\* (Len(s) + 1 on the last line)
EndOfLine(s, j) == RunEnd(AnyChar \ {"\n"}, s, j)

Reverse(q) == [n \in 1..Len(q) |-> q[Len(q) + 1 - n]]

TotalExample ==
    <<"T", "o", "t", "a", "l", ":", " ", "$", "1", ",", "2", "3", "4", ".", "5", "6">>

Amount1234 == <<"1", "2", "3", "4", ".", "5", "6">>

InvoiceDateExample ==
    <<"I", "n", "v", "o", "i", "c", "e", " ", "D", "a", "t", "e", ":", " ",
      "J", "a", "n", "u", "a", "r", "y", " ", "5", ",", " ", "2", "0", "2", "4">>

January5 ==
    <<"J", "a", "n", "u", "a", "r", "y", " ", "5", ",", " ", "2", "0", "2", "4">>

DateColon == <<"D", "a", "t", "e", ":">>

\* C1: whatever the text, the record returned has exactly the keys amount,
\* buyer, seller and date, and each value is a string.
C1_FourStringFields ==
    pc = "done" =>
        /\ DOMAIN extracted = Fields
        /\ \A f \in Fields : extracted[f] \in Seq(AnyChar)

\* a text with an amount label and no usable value: one field stays empty while
\* another is filled
C1_Witness ==
    /\ pc = "done"
    /\ LabelAt(AmountLabels) # {}
    /\ extracted["amount"] = << >>
    /\ extracted["buyer"] # << >>

\* C2 as claimed: every text that contains "Total: $1,234.56", whatever
\* precedes or follows it, yields amount "1234.56".
C2_TotalAnywhere ==
    pc = "done" =>
        ((\E i \in Positions : Occurs(TotalExample, text, i))
            => extracted["amount"] = Amount1234)

\* "Total: $1,234.56" stands at i, no digit follows it, and the amount pattern
\* matches at no earlier position
TotalExampleFirst(i) ==
    /\ Occurs(TotalExample, text, i)
    /\ (i + Len(TotalExample) > Len(text) \/ text[i + Len(TotalExample)] \notin Digit)
    /\ \A j \in 1..(i - 1) : ~AmountAt(AmountLabels, text, j).ok

\* C2 amended: a text that contains "Total: $1,234.56" not directly followed
\* by a digit, with no match of the amount pattern beginning before it, yields
\* amount "1234.56".
C2_TotalFirst ==
    pc = "done" =>
        \A i \in Positions : TotalExampleFirst(i) => extracted["amount"] = Amount1234

\* the example preceded by other text, and the example followed by other text
C2_Witness ==
    /\ pc = "done"
    /\ extracted["amount"] = Amount1234
    /\ \E i \in Positions :
          /\ TotalExampleFirst(i)
          /\ i > 1 \/ i + Len(TotalExample) <= Len(text)
          /\ extracted["seller"] # << >>

\* C3: when the numeric pattern ("Date" and D/D/Y, D-D-Y or D.D.Y) matches
\* somewhere, the date is the numeric date of its leftmost match, whether or
\* not a textual "Invoice Date"/"Bill Date" match stands in the text, before or
\* after it.
C3_NumericDatePrecedence ==
    pc = "done" =>
        (NumericDateHits # {} =>
            /\ extracted["date"] =
                  GroupText(text, NumericDateAt(text, Min(NumericDateHits)))
            /\ extracted["date"] \in Seq(Digit \cup DateSep))

\* a textual date match begins before the leftmost numeric one
C3_Witness ==
    /\ pc = "done"
    /\ NumericDateHits # {}
    /\ \E i \in TextualDateHits : i < Min(NumericDateHits)
    /\ extracted["date"] # << >>

\* C4 as claimed: a text that contains "Invoice Date: January 5, 2024" with no
\* "Date:" before it yields date "January 5, 2024", whatever follows.
C4_InvoiceDateAnywhere ==
    pc = "done" =>
        ((\E i \in Positions :
              /\ Occurs(InvoiceDateExample, text, i)
              /\ \A j \in 1..(i - 1) : ~Lit(DateColon, text, j))
            => extracted["date"] = January5)

\* "Invoice Date: January 5, 2024" stands at i, the numeric date pattern
\* matches nowhere, and the textual date pattern matches at no earlier position
InvoiceDateExampleFirst(i) ==
    /\ Occurs(InvoiceDateExample, text, i)
    /\ NumericDateHits = {}
    /\ \A j \in 1..(i - 1) : ~TextualDateAt(text, j).ok

\* C4 amended: a text that contains "Invoice Date: January 5, 2024", in which
\* the numeric date pattern matches nowhere (before or after it) and no
\* textual date match begins before it, yields date "January 5, 2024".
C4_InvoiceDateFirst ==
    pc = "done" =>
        \A i \in Positions : InvoiceDateExampleFirst(i) => extracted["date"] = January5

\* the example with more text after it
C4_Witness ==
    /\ pc = "done"
    /\ extracted["date"] = January5
    /\ \E i \in Positions :
          /\ InvoiceDateExampleFirst(i)
          /\ i + Len(InvoiceDateExample) <= Len(text)

\* what stands on the line after position j, without the colons and
\* whitespace that lead it and without surrounding whitespace
SameLineContent(s, j) ==
    LET rest == SubSeq(s, j, EndOfLine(s, j) - 1)
    IN  Strip(SubSeq(rest, RunEnd(ColonSpace, rest, 1), Len(rest)))

\* C5: when the first "Bill To" is followed on its line by content and then by
\* further lines, the buyer is that content, trimmed; and for every text the
\* buyer holds no newline and neither starts nor ends with whitespace.
C5_BuyerFirstLine ==
    pc = "done" =>
        /\ LabelAt(BuyerLabels) # {} =>
              LET j == Min(LabelAt(BuyerLabels)) + Len(BuyerLabels[1])
              IN  (/\ SameLineContent(text, j) # << >>
                   /\ EndOfLine(text, j) < Len(text))
                      => extracted["buyer"] = SameLineContent(text, j)
        /\ \A k \in 1..Len(extracted["buyer"]) : extracted["buyer"][k] # "\n"
        /\ extracted["buyer"] # << >> =>
              /\ extracted["buyer"][1] \notin Space
              /\ extracted["buyer"][Len(extracted["buyer"])] \notin Space

\* "Bill To" with content on its line, led by a colon and a blank, and
\* another line after it
C5_Witness ==
    /\ pc = "done"
    /\ LabelAt(BuyerLabels) # {}
    /\ LET j == Min(LabelAt(BuyerLabels)) + Len(BuyerLabels[1])
       IN  /\ SameLineContent(text, j) # << >>
           /\ EndOfLine(text, j) < Len(text)
           /\ text[j] \in ColonSpace
           /\ extracted["buyer"] = SameLineContent(text, j)

\* exactly one label of the list stands in text, and only colons and
\* whitespace follow it on its line
EmptyLabelLine(labels) ==
    /\ Cardinality(LabelAt(labels)) = 1
    /\ \E i \in LabelAt(labels) : \E n \in DOMAIN labels :
          /\ Lit(labels[n], text, i)
          /\ \A k \in (i + Len(labels[n]))..(EndOfLine(text, i) - 1) :
                text[k] \in ColonSpace

\* C6: a label with nothing but whitespace after it on its line gives an empty
\* field, even when non-empty lines follow; the next line is never captured.
C6_EmptyLabelLineGivesEmpty ==
    pc = "done" =>
        /\ EmptyLabelLine(SellerLabels) => extracted["seller"] = << >>
        /\ EmptyLabelLine(BuyerLabels) => extracted["buyer"] = << >>
        /\ EmptyLabelLine(AmountLabels) => extracted["amount"] = << >>

\* C7: a field none of whose patterns matches is "", whatever the other fields
\* hold; a search leaves the fields of the later searches untouched; the empty
\* text gives four empty fields.
C7_AbsenceIsEmpty ==
    /\ pc = "done" =>
          /\ AmountHits = {} => extracted["amount"] = << >>
          /\ (NumericDateHits = {} /\ TextualDateHits = {}) => extracted["date"] = << >>
          /\ BuyerHits = {} => extracted["buyer"] = << >>
          /\ SellerHits = {} => extracted["seller"] = << >>
          /\ text = << >> => \A f \in Fields : extracted[f] = << >>
    /\ pc = "date" => \A f \in {"date", "buyer", "seller"} : extracted[f] = << >>
    /\ pc = "buyer" => \A f \in {"buyer", "seller"} : extracted[f] = << >>
    /\ pc = "seller" => extracted["seller"] = << >>

\* a non-empty text without an amount, whose seller is found
C7_Witness ==
    /\ pc = "done"
    /\ text # << >>
    /\ AmountHits = {}
    /\ extracted["amount"] = << >>
    /\ extracted["seller"] # << >>

\* C8: amount, buyer and seller are taken from the leftmost position at which
\* the field's pattern matches, and listing the labels in another order
\* changes nothing.
C8_FirstMatchWins ==
    pc = "done" =>
        /\ AmountHits # {} =>
              extracted["amount"] =
                  AmountValue(text, AmountAt(AmountLabels, text, Min(AmountHits)))
        /\ BuyerHits # {} =>
              extracted["buyer"] =
                  LineValue(text, LineAt(BuyerLabels, text, Min(BuyerHits)))
        /\ SellerHits # {} =>
              extracted["seller"] =
                  LineValue(text, LineAt(SellerLabels, text, Min(SellerHits)))
        /\ AmountSearch(Reverse(AmountLabels), text) = AmountSearch(AmountLabels, text)
        /\ LineSearch(Reverse(SellerLabels), text) = LineSearch(SellerLabels, text)

\* an "Amount" match before a "Total" match with another value
C8_Witness ==
    /\ pc = "done"
    /\ \E i \in AmountHits : \E j \in AmountHits :
          /\ i < j
          /\ Lit(AmountLabels[2], text, i)
          /\ Lit(AmountLabels[1], text, j)
          /\ AmountValue(text, AmountAt(AmountLabels, text, i)) #
                AmountValue(text, AmountAt(AmountLabels, text, j))

\* digits with at most one decimal point, and at least one digit
Canonical(a) ==
    /\ \A k \in 1..Len(a) : a[k] \in Digit \cup {"."}
    /\ Cardinality({k \in 1..Len(a) : a[k] = "."}) <= 1
    /\ \E k \in 1..Len(a) : a[k] \in Digit

\* C9: whenever the amount pattern matches, the stored amount is a canonical
\* numeric string: no comma, no whitespace, digits with at most one decimal
\* point, at least one digit.
C9_CanonicalAmount ==
    pc = "done" =>
        (AmountHits # {} => Canonical(extracted["amount"]))

\* C10: in a run of main in which the image exists and the inference call
\* succeeds, extract_info_from_text has been called by the time main reports
\* the outcome, and a record with a non-empty field has been handed to
\* store_invoice_data.
C10_PipelineOrder ==
    (mainPc = "done" /\ env.image_exists /\ env.api = "ok") =>
        /\ \E n \in DOMAIN calls : calls[n] = "extract_info_from_text"
        /\ ~NothingExtracted(extracted_data) =>
              \E n \in DOMAIN calls : calls[n] = "store_invoice_data"

=============================================================================
